---- MODULE Spec2Model ----
(***************************************************************************)
(* The attendance dashboard controller (AttendanceDashboard), in its two   *)
(* variants:                                                               *)
(*   A  src/unnamed/part_000 (department + job filters, employees tab)     *)
(*   B  src/hr_attendance_dashboard/static/src/js/attendance_dashboard.js  *)
(*      (department filter only, leave list, monthly refresh guard)        *)
(* `state` is the component's reactive state object, `pending` the remote  *)
(* calls (orm.call) that have been issued and not yet answered.  A step is *)
(* one run-to-completion turn of the JavaScript event loop: a handler from *)
(* its entry to its first `await` of a remote call, or the arrival of a    *)
(* response together with every continuation it resumes.                   *)
(***************************************************************************)
EXTENDS Integers, Sequences, FiniteSets, TLC

VARIABLES
    variant,          \* "A" or "B": which of the two controllers is running
    phase,            \* "setup", "willStart", "ready", "mounted", "destroyed", "failed"
    refreshInterval,  \* TRUE once setInterval has scheduled the periodic refresh
    state,            \* this.state
    pending,          \* remote calls awaiting their response, in order of issue
    now,              \* the wall clock, as read by new Date(): the timer periods elapsed
    uncaught,         \* TRUE once a rejection has escaped every handler
    events,           \* user events and timer ticks the run may still take
    lastOp,           \* the step just taken: [name, arg]
    issued,           \* the remote calls the step just taken has issued
    opened,           \* the URLs the step just taken has opened
    fullName,         \* the employee name the template passes to getInitials
    initials          \* what getInitials has answered for it

vars == <<variant, phase, refreshInterval, state, pending, now, uncaught,
          events, lastOp, issued, opened, fullName, initials>>

----------------------------------------------------------------------------
(* Bounds of the model *)

\* remote calls that may be awaiting their response at the same time
MaxPending == 2
\* user events and timer ticks in one run
MaxEvents == 2
\* characters of an employee name
MaxNameLen == 4

\* new Date().getMonth() + 1 and new Date().getFullYear() when setup() runs
CurrentMonth == 11
CurrentYear == 2024

----------------------------------------------------------------------------
(* JavaScript values: null, NaN and integers *)

Null == [t |-> "null"]
NaN == [t |-> "nan"]
Num(n) == [t |-> "int", v |-> n]

\* JavaScript truthiness of a value held in a filter field: null, NaN and 0
\* are falsy, every other number is truthy
Truthy(x) == x.t = "int" /\ x.v # 0

\* a string is a sequence of one-character strings; it is truthy when non-empty
DigitChars == <<"0", "1", "2", "3", "4", "5", "6", "7", "8", "9">>

IsDigit(c) == \E i \in 1..10 : DigitChars[i] = c

DigitValue(c) == (CHOOSE i \in 1..10 : DigitChars[i] = c) - 1

RECURSIVE SkipSpaces(_)
SkipSpaces(s) == IF s # <<>> /\ Head(s) = " " THEN SkipSpaces(Tail(s)) ELSE s

RECURSIVE DigitPrefix(_)
DigitPrefix(s) ==
    IF s # <<>> /\ IsDigit(Head(s)) THEN <<Head(s)>> \o DigitPrefix(Tail(s))
    ELSE <<>>

RECURSIVE DigitsValue(_)
DigitsValue(ds) ==
    IF ds = <<>> THEN 0
    ELSE 10 * DigitsValue(SubSeq(ds, 1, Len(ds) - 1)) + DigitValue(ds[Len(ds)])

\* parseInt(value) with no radix, on decimal input: leading blanks are
\* skipped, an optional sign is read, then the longest run of digits; NaN
\* when there is no digit
ParseInt(value) ==
    LET s == SkipSpaces(value)
        neg == s # <<>> /\ Head(s) = "-"
        body == IF s # <<>> /\ Head(s) \in {"-", "+"} THEN Tail(s) ELSE s
        ds == DigitPrefix(body)
    IN IF ds = <<>> THEN NaN
       ELSE Num(IF neg THEN 0 - DigitsValue(ds) ELSE DigitsValue(ds))

\* the decimal digits of a natural number, as the option value a <select>
\* carries
RECURSIVE Digits(_)
Digits(n) ==
    IF n < 10 THEN <<DigitChars[n + 1]>>
    ELSE Digits(n \div 10) \o <<DigitChars[(n % 10) + 1]>>

----------------------------------------------------------------------------
(* The values the user interface offers *)

Variants == {"A", "B"}

\* the department <select>: "no department" and the ids of two departments
DepartmentInputs == {<<>>, <<"0">>, <<"3">>}

\* the job <select> (variant A)
JobInputs == {<<>>, <<"5">>}

\* the tabs
Tabs == IF variant = "A" THEN {"overview", "employees", "monthly"}
        ELSE {"overview", "monthly"}

\* the employee filter buttons (variant A)
EmployeeFilters == {"all", "present", "absent", "late"}

\* getMonthOptions(): the values 1..12
getMonthOptions == 1..12

\* getYearOptions()
getYearOptions == {CurrentYear - 1, CurrentYear, CurrentYear + 1}

\* the raw values a month change event carries: two options of the selector
\* and two values outside it
MonthInputs == {Digits(1), Digits(12), Digits(0), Digits(13)}

\* the raw values a year change event carries
YearInputs == {Digits(y) : y \in getYearOptions}

----------------------------------------------------------------------------
(* The remote-call service *)

\* the record the server answers a call with: it is a function of the call
Response(method, args) == [method |-> method, args |-> args]

\* data.<field> of a response
Field(data, field) == [field |-> field, of |-> data]

\* the literal a field is given in setup()
Literal(field) == Field(Response("setup", <<>>), field)

\* new Date().toLocaleTimeString()
toLocaleTimeString(t) == ToString(t)

\* a suspended async function: fn awaits the promise of `awaits`
Frame(fn, awaits) == [fn |-> fn, awaits |-> awaits]

\* a remote call in flight, with the async functions suspended on it: the
\* one that issued orm.call first, then the one awaiting that one, and so on
Call(method, args, stack) == [method |-> method, args |-> args, stack |-> stack]

Request(call) == [method |-> call.method, args |-> call.args]

Requests(calls) == [i \in 1..Len(calls) |-> Request(calls[i])]

Remove(seq, i) == SubSeq(seq, 1, i - 1) \o SubSeq(seq, i + 1, Len(seq))

----------------------------------------------------------------------------
(* setup(): the initial state object *)

setupState(v, t) ==
    IF v = "A" THEN
        [loading |-> TRUE, refreshing |-> FALSE,
         selectedDepartment |-> Null, selectedJob |-> Null,
         departments |-> Literal("departments"), jobs |-> Literal("jobs"),
         todayStats |-> Literal("today_stats"),
         recentCheckins |-> Literal("recent_checkins"),
         lastUpdate |-> toLocaleTimeString(t),
         activeTab |-> "overview",
         employeeList |-> Literal("employee_list"),
         employeeFilter |-> "all",
         monthlySummary |-> Literal("monthly_summary"),
         selectedMonth |-> Num(CurrentMonth),
         selectedYear |-> Num(CurrentYear)]
    ELSE
        [loading |-> TRUE, refreshing |-> FALSE,
         selectedDepartment |-> Null,
         departments |-> Literal("departments"),
         todayStats |-> Literal("today_stats"),
         absentEmployees |-> Literal("absent_employees"),
         onLeaveEmployees |-> Literal("on_leave_employees"),
         showLeaveList |-> FALSE,
         lastUpdate |-> toLocaleTimeString(t),
         activeTab |-> "overview",
         monthlySummary |-> Literal("monthly_summary"),
         selectedMonth |-> Num(CurrentMonth),
         selectedYear |-> Num(CurrentYear)]

----------------------------------------------------------------------------
(* loadDashboardData, loadEmployeeList, loadMonthlySummary.  Each is split  *)
(* at its await: the arguments it passes to orm.call, the rest of its try   *)
(* block, run when the call resolves, and its catch block, run when the     *)
(* call rejects.  The last two give the state the function leaves and       *)
(* whether it throws to whoever awaits it.                                  *)

Returned(s) == [state |-> s, thrown |-> FALSE]

Threw(s) == [state |-> s, thrown |-> TRUE]

loadDashboardDataArgs(s) ==
    IF variant = "A" THEN <<s.selectedDepartment, s.selectedJob>>
    ELSE <<s.selectedDepartment>>


\* a load that drops a response whose request no longer matches the filters
loadDashboardDataTryDropsStale(s, data, t) ==
    IF data.args # loadDashboardDataArgs(s) THEN Returned([s EXCEPT !.loading = FALSE])
    ELSE IF variant = "A" THEN
        Returned([s EXCEPT !.todayStats = Field(data, "today_stats"),
                           !.recentCheckins = Field(data, "recent_checkins"),
                           !.monthlySummary = Field(data, "monthly_summary"),
                           !.departments = Field(data, "departments"),
                           !.jobs = Field(data, "jobs"),
                           !.lastUpdate = toLocaleTimeString(t),
                           !.loading = FALSE])
    ELSE
        Returned([s EXCEPT !.todayStats = Field(data, "today_stats"),
                           !.absentEmployees = Field(data, "absent_employees"),
                           !.onLeaveEmployees = Field(data, "on_leave_employees"),
                           !.departments = Field(data, "departments"),
                           !.lastUpdate = toLocaleTimeString(t),
                           !.loading = FALSE])

loadDashboardDataTry(s, data, t) ==
    IF variant = "A" THEN
        Returned([s EXCEPT !.todayStats = Field(data, "today_stats"),
                           !.recentCheckins = Field(data, "recent_checkins"),
                           !.monthlySummary = Field(data, "monthly_summary"),
                           !.departments = Field(data, "departments"),
                           !.jobs = Field(data, "jobs"),
                           !.lastUpdate = toLocaleTimeString(t),
                           !.loading = FALSE])
    ELSE
        Returned([s EXCEPT !.todayStats = Field(data, "today_stats"),
                           !.absentEmployees = Field(data, "absent_employees"),
                           !.onLeaveEmployees = Field(data, "on_leave_employees"),
                           !.departments = Field(data, "departments"),
                           !.lastUpdate = toLocaleTimeString(t),
                           !.loading = FALSE])


\* loadDashboardData without its catch block: the rejection is rethrown
loadDashboardDataCatchRethrows(s) == Threw(s)

\* a catch block that only logs
loadDashboardDataCatchKeepsLoading(s) == Returned(s)

loadDashboardDataCatch(s) == Returned([s EXCEPT !.loading = FALSE])

loadEmployeeListArgs(s) ==
    <<s.employeeFilter, s.selectedDepartment, s.selectedJob>>


\* an employee-list load that also stamps the time of the update
loadEmployeeListTryStamps(s, data) ==
    Returned([s EXCEPT !.employeeList = data, !.lastUpdate = "updated"])

loadEmployeeListTry(s, data) == Returned([s EXCEPT !.employeeList = data])

loadEmployeeListCatch(s) == Returned(s)

loadMonthlySummaryArgs(s) ==
    IF variant = "A"
    THEN <<s.selectedDepartment, s.selectedJob, s.selectedMonth, s.selectedYear>>
    ELSE <<s.selectedDepartment, s.selectedMonth, s.selectedYear>>

loadMonthlySummaryTry(s, data) == Returned([s EXCEPT !.monthlySummary = data])


\* a catch block that falls back to the empty summary
loadMonthlySummaryCatchResets(s) ==
    Returned([s EXCEPT !.monthlySummary = Literal("monthly_summary")])

loadMonthlySummaryCatch(s) == Returned(s)

\* the synchronous part of each: the call it issues, with `awaiters` the
\* async functions suspended on its result
loadDashboardData(s, awaiters) ==
    Call("get_all_dashboard_data", loadDashboardDataArgs(s),
         <<Frame("loadDashboardData", "orm.call")>> \o awaiters)

loadEmployeeList(s, awaiters) ==
    Call("get_employee_list", loadEmployeeListArgs(s),
         <<Frame("loadEmployeeList", "orm.call")>> \o awaiters)

loadMonthlySummary(s, awaiters) ==
    Call("get_monthly_work_summary", loadMonthlySummaryArgs(s),
         <<Frame("loadMonthlySummary", "orm.call")>> \o awaiters)

\* the function that issued the call resumes with the outcome of orm.call
Settle(call, ok, s, t) ==
    LET fn == Head(call.stack).fn
        data == Response(call.method, call.args)
    IN CASE fn = "loadDashboardData" ->
              IF ok THEN loadDashboardDataTry(s, data, t)
              ELSE loadDashboardDataCatch(s)
         [] fn = "loadEmployeeList" ->
              IF ok THEN loadEmployeeListTry(s, data) ELSE loadEmployeeListCatch(s)
         [] fn = "loadMonthlySummary" ->
              IF ok THEN loadMonthlySummaryTry(s, data)
              ELSE loadMonthlySummaryCatch(s)

----------------------------------------------------------------------------
(* refreshData *)

\* refreshData up to its first await: the flag is raised and the full load
\* is started
refreshDataBegin(s) == [s EXCEPT !.refreshing = TRUE]

\* variant B, after the full load: is the monthly summary reloaded too?
refreshDataReloadsMonthly(s) == variant = "B" /\ s.activeTab = "monthly"

\* refreshData's last statement

\* refreshData that never lowers the flag
refreshDataEndKeepsFlag(s) == s

refreshDataEnd(s) == [s EXCEPT !.refreshing = FALSE]

\* The async functions awaiting a function that has just returned (or
\* thrown) resume, innermost first.  None of them has a try block, so an
\* exception passes through all of them and ends as an unhandled rejection.
\* The result: the state left, the calls issued on the way, and whether an
\* exception escaped.
RECURSIVE Resume(_, _, _)
Resume(frames, s, thrown) ==
    IF frames = <<>> THEN [state |-> s, calls |-> <<>>, uncaught |-> thrown]
    ELSE
        LET f == Head(frames)
            rest == Tail(frames)
        IN IF thrown THEN Resume(rest, s, TRUE)
           ELSE IF f.fn = "refreshData" /\ f.awaits = "loadDashboardData" THEN
               IF refreshDataReloadsMonthly(s)
               THEN [state |-> s,
                     calls |-> <<loadMonthlySummary(s,
                         <<Frame("refreshData", "loadMonthlySummary")>> \o rest)>>,
                     uncaught |-> FALSE]
               ELSE Resume(rest, refreshDataEnd(s), FALSE)
           ELSE IF f.fn = "refreshData" /\ f.awaits = "loadMonthlySummary" THEN
               Resume(rest, refreshDataEnd(s), FALSE)
           ELSE Resume(rest, s, FALSE)

----------------------------------------------------------------------------
(* exportToExcel: the URL it opens *)

RECURSIVE join(_, _)
join(params, sep) ==
    IF params = <<>> THEN ""
    ELSE IF Len(params) = 1 THEN params[1]
    ELSE params[1] \o sep \o join(Tail(params), sep)

\* `name=${value}` pushed when the value is truthy
param(name, value) ==
    IF Truthy(value) THEN <<name \o "=" \o ToString(value.v)>> ELSE <<>>


\* an export that leaves the month out
exportParamsNoMonth(s) ==
    IF variant = "A" THEN
        param("department_id", s.selectedDepartment)
            \o param("job_id", s.selectedJob)
            \o param("year", s.selectedYear)
    ELSE
        param("department_id", s.selectedDepartment)
            \o param("year", s.selectedYear)

exportParams(s) ==
    IF variant = "A" THEN
        param("department_id", s.selectedDepartment)
            \o param("job_id", s.selectedJob)
            \o param("month", s.selectedMonth)
            \o param("year", s.selectedYear)
    ELSE
        param("department_id", s.selectedDepartment)
            \o param("month", s.selectedMonth)
            \o param("year", s.selectedYear)

exportUrl(s) ==
    "/attendance_dashboard/export_monthly_excel?" \o join(exportParams(s), "&")

----------------------------------------------------------------------------
(* getInitials.  A string is a sequence of one-character strings.          *)

\* the characters of the employee names considered
NameChars == {"a", "b", " "}

RECURSIVE StringsUpTo(_)
StringsUpTo(n) ==
    IF n = 0 THEN {<<>>}
    ELSE LET shorter == StringsUpTo(n - 1)
         IN shorter \cup {Append(s, c) : s \in shorter, c \in NameChars}

Names == StringsUpTo(MaxNameLen)

LowerCase == <<"a", "b", "c", "d", "e", "f", "g", "h", "i", "j", "k", "l", "m",
               "n", "o", "p", "q", "r", "s", "t", "u", "v", "w", "x", "y", "z">>

UpperCase == <<"A", "B", "C", "D", "E", "F", "G", "H", "I", "J", "K", "L", "M",
               "N", "O", "P", "Q", "R", "S", "T", "U", "V", "W", "X", "Y", "Z">>

toUpperCaseChar(c) ==
    IF \E i \in 1..Len(LowerCase) : LowerCase[i] = c
    THEN UpperCase[CHOOSE i \in 1..Len(LowerCase) : LowerCase[i] = c]
    ELSE c

\* str.toUpperCase()
toUpperCase(str) == [i \in 1..Len(str) |-> toUpperCaseChar(str[i])]

\* str.split(sep) for a one-character separator: the parts between the
\* separators, empty parts included
RECURSIVE split(_, _)
split(str, sep) ==
    IF \A i \in 1..Len(str) : str[i] # sep THEN <<str>>
    ELSE LET k == CHOOSE i \in 1..Len(str) :
                      str[i] = sep /\ \A j \in 1..(i - 1) : str[j] # sep
         IN <<SubSeq(str, 1, k - 1)>> \o split(SubSeq(str, k + 1, Len(str)), sep)

\* str.substring(0, n)
substring(str, n) == SubSeq(str, 1, IF Len(str) < n THEN Len(str) ELSE n)

\* the values of the expressions of getInitials: a string, undefined, NaN
StringValue(str) == [t |-> "string", s |-> str]

Undefined == [t |-> "undefined"]

NotANumber == [t |-> "number", v |-> "NaN"]

\* str[0]: undefined for the empty string
firstChar(str) == IF str = <<>> THEN Undefined ELSE StringValue(<<str[1]>>)

\* ToString of a value, as the + operator applies it
asString(x) ==
    IF x.t = "string" THEN x.s
    ELSE <<"u", "n", "d", "e", "f", "i", "n", "e", "d">>

\* x + y: concatenation when either operand is a string; undefined +
\* undefined is numeric addition, NaN
plus(x, y) ==
    IF x.t = "string" \/ y.t = "string"
    THEN StringValue(asString(x) \o asString(y))
    ELSE NotANumber

\* what a call leaves: the string returned or the exception thrown
ReturnedString(str) == [t |-> "returned", value |-> str]

ThrewTypeError == [t |-> "thrown", error |-> "TypeError"]

NotCalled == [t |-> "none"]

\* (x).toUpperCase(): a number has no such method
callToUpperCase(x) ==
    IF x.t = "string" THEN ReturnedString(toUpperCase(x.s)) ELSE ThrewTypeError

getInitials(name) ==
    IF name = <<>> THEN ReturnedString(<<"?">>)
    ELSE LET parts == split(name, " ")
         IN IF Len(parts) >= 2
            THEN callToUpperCase(plus(firstChar(parts[1]), firstChar(parts[2])))
            ELSE ReturnedString(toUpperCase(substring(name, 2)))

----------------------------------------------------------------------------
(* The steps *)

\* the component after setup(), with a budget of events, and the employee
\* names its template may render
InitWith(budget, employeeNames) ==
    /\ variant \in Variants
    /\ phase = "setup"
    /\ refreshInterval = FALSE
    /\ now = 0
    /\ state = setupState(variant, now)
    /\ pending = <<>>
    /\ uncaught = FALSE
    /\ events = budget
    /\ lastOp = [name |-> "setup", arg |-> <<>>]
    /\ issued = <<>>
    /\ opened = <<>>
    /\ fullName \in employeeNames
    /\ initials = NotCalled

Init == InitWith(MaxEvents, {<<>>})

\* what a handler leaves behind: the new state, the calls it has issued and
\* the URLs it has opened
Handler(name, arg, s, calls, urls) ==
    /\ Len(pending) + Len(calls) <= MaxPending
    /\ state' = s
    /\ pending' = pending \o calls
    /\ lastOp' = [name |-> name, arg |-> arg]
    /\ issued' = Requests(calls)
    /\ opened' = urls
    /\ UNCHANGED <<variant, uncaught, fullName, initials>>

\* a handler the rendered view calls on a user event
UserEvent(name, arg, s, calls, urls) ==
    /\ phase = "mounted"
    /\ events > 0
    /\ events' = events - 1
    /\ Handler(name, arg, s, calls, urls)
    /\ UNCHANGED <<phase, refreshInterval, now>>

\* the value a filter handler stores for the raw value of the <select>

\* a filter handler without the empty-selection test
filterValueAlwaysParses(value) == ParseInt(value)

filterValue(value) == IF value # <<>> THEN ParseInt(value) ELSE Null

\* refreshData called from a handler that awaits it (or from the timer,
\* with no awaiter): the state and the call it leaves
refreshData(s, awaiters) ==
    LET s1 == refreshDataBegin(s)
    IN [state |-> s1,
        calls |-> <<loadDashboardData(s1,
                      <<Frame("refreshData", "loadDashboardData")>> \o awaiters)>>]

onWillStart ==
    /\ phase = "setup"
    /\ phase' = "willStart"
    /\ Handler("onWillStart", <<>>, state,
               <<loadDashboardData(state,
                     <<Frame("onWillStart", "loadDashboardData")>>)>>, <<>>)
    /\ UNCHANGED <<refreshInterval, now, events>>

onMounted ==
    /\ phase = "ready"
    /\ phase' = "mounted"
    /\ refreshInterval' = TRUE
    /\ Handler("onMounted", <<>>, state, <<>>, <<>>)
    /\ UNCHANGED <<now, events>>

\* the component is unmounted and destroyed; the class registers no
\* onWillUnmount / onWillDestroy hook, so nothing of it runs
destroy ==
    /\ phase \in {"setup", "willStart", "ready", "mounted"}
    /\ phase' = "destroyed"
    /\ Handler("destroy", <<>>, state, <<>>, <<>>)
    /\ UNCHANGED <<refreshInterval, now, events>>

\* the interval fires: () => this.refreshData()
timerTick ==
    /\ refreshInterval
    /\ events > 0
    /\ events' = events - 1
    /\ now' = now + 1
    /\ LET r == refreshData(state, <<>>)
       IN Handler("timerTick", <<>>, r.state, r.calls, <<>>)
    /\ UNCHANGED <<phase, refreshInterval>>

onDepartmentChange ==
    \E value \in DepartmentInputs :
        LET r == refreshData([state EXCEPT !.selectedDepartment = filterValue(value)],
                             <<Frame("onDepartmentChange", "refreshData")>>)
        IN UserEvent("onDepartmentChange", value, r.state, r.calls, <<>>)

onJobChange ==
    /\ variant = "A"
    /\ \E value \in JobInputs :
        LET r == refreshData([state EXCEPT !.selectedJob = filterValue(value)],
                             <<Frame("onJobChange", "refreshData")>>)
        IN UserEvent("onJobChange", value, r.state, r.calls, <<>>)

clearFiltersState(s) ==
    IF variant = "A"
    THEN [s EXCEPT !.selectedDepartment = Null, !.selectedJob = Null]
    ELSE [s EXCEPT !.selectedDepartment = Null]

clearFilters ==
    LET r == refreshData(clearFiltersState(state),
                         <<Frame("clearFilters", "refreshData")>>)
    IN UserEvent("clearFilters", <<>>, r.state, r.calls, <<>>)


\* a tab switch that also drops the department filter
setActiveTabStateResets(s, tab) ==
    [s EXCEPT !.activeTab = tab, !.selectedDepartment = Null]

setActiveTabState(s, tab) ==
    IF variant = "A" THEN [s EXCEPT !.activeTab = tab]
    ELSE [s EXCEPT !.activeTab = tab, !.showLeaveList = FALSE]


\* a tab switch that reloads the monthly summary on every tab but employees
setActiveTabCallsEager(s, tab) ==
    IF variant = "A" /\ tab = "employees" THEN <<loadEmployeeList(s, <<>>)>>
    ELSE <<loadMonthlySummary(s, <<>>)>>

setActiveTabCalls(s, tab) ==
    IF variant = "A" /\ tab = "employees" THEN <<loadEmployeeList(s, <<>>)>>
    ELSE IF tab = "monthly" THEN <<loadMonthlySummary(s, <<>>)>>
    ELSE <<>>

setActiveTab ==
    \E tab \in Tabs :
        LET s == setActiveTabState(state, tab)
        IN UserEvent("setActiveTab", tab, s, setActiveTabCalls(s, tab), <<>>)

toggleLeaveList ==
    /\ variant = "B"
    /\ UserEvent("toggleLeaveList", <<>>,
                 [state EXCEPT !.showLeaveList = ~state.showLeaveList], <<>>, <<>>)

onEmployeeFilterChange ==
    /\ variant = "A"
    /\ \E filter \in EmployeeFilters :
        LET s == [state EXCEPT !.employeeFilter = filter]
        IN UserEvent("onEmployeeFilterChange", filter, s,
                     <<loadEmployeeList(s,
                           <<Frame("onEmployeeFilterChange", "loadEmployeeList")>>)>>,
                     <<>>)

onMonthChange ==
    \E value \in MonthInputs :
        LET s == [state EXCEPT !.selectedMonth = ParseInt(value)]
        IN UserEvent("onMonthChange", value, s,
                     <<loadMonthlySummary(s,
                           <<Frame("onMonthChange", "loadMonthlySummary")>>)>>,
                     <<>>)


\* a year change that runs the full refresh
onYearChangeRefreshes ==
    \E value \in YearInputs :
        LET r == refreshData([state EXCEPT !.selectedYear = ParseInt(value)],
                             <<Frame("onYearChange", "refreshData")>>)
        IN UserEvent("onYearChange", value, r.state, r.calls, <<>>)

onYearChange ==
    \E value \in YearInputs :
        LET s == [state EXCEPT !.selectedYear = ParseInt(value)]
        IN UserEvent("onYearChange", value, s,
                     <<loadMonthlySummary(s,
                           <<Frame("onYearChange", "loadMonthlySummary")>>)>>,
                     <<>>)

exportToExcel ==
    UserEvent("exportToExcel", <<>>, state, <<>>, <<exportUrl(state)>>)

\* the answer to pending[i] arrives: the function that issued the call
\* resumes, then every function awaiting it, to the next await or the end
rpcSettle(name, i, ok) ==
    LET call == pending[i]
        r == Settle(call, ok, state, now)
        R == Resume(Tail(call.stack), r.state, r.thrown)
        bottom == call.stack[Len(call.stack)]
    IN /\ state' = R.state
       /\ pending' = Remove(pending, i) \o R.calls
       /\ uncaught' = (uncaught \/ R.uncaught)
       /\ phase' = IF bottom.fn = "onWillStart" /\ phase = "willStart"
                   THEN (IF R.uncaught THEN "failed" ELSE "ready")
                   ELSE phase
       /\ lastOp' = [name |-> name, arg |-> call]
       /\ issued' = Requests(R.calls)
       /\ opened' = <<>>
       /\ UNCHANGED <<variant, refreshInterval, now, events, fullName, initials>>

rpcResolve == \E i \in 1..Len(pending) : rpcSettle("rpcResolve", i, TRUE)

rpcReject == \E i \in 1..Len(pending) : rpcSettle("rpcReject", i, FALSE)

Next ==
    \/ onWillStart
    \/ onMounted
    \/ destroy
    \/ timerTick
    \/ onDepartmentChange
    \/ onJobChange
    \/ clearFilters
    \/ setActiveTab
    \/ toggleLeaveList
    \/ onEmployeeFilterChange
    \/ onMonthChange
    \/ onYearChange
    \/ exportToExcel
    \/ rpcResolve
    \/ rpcReject

Spec == Init /\ [][Next]_vars

\* the same controller followed for one event more
DeepInit == InitWith(MaxEvents + 1, {<<>>})

DeepSpec == DeepInit /\ [][Next]_vars

\* every remote call is eventually answered
FairSpec == Spec /\ WF_vars(rpcResolve \/ rpcReject)

\* the template renders the initials of an employee name
renderInitials ==
    /\ initials = NotCalled
    /\ initials' = getInitials(fullName)
    /\ UNCHANGED <<variant, phase, refreshInterval, state, pending, now, uncaught,
                   events, lastOp, issued, opened, fullName>>

InitialsInit == InitWith(MaxEvents, Names)

InitialsNext == renderInitials

InitialsSpec == InitialsInit /\ [][InitialsNext]_vars

----------------------------------------------------------------------------
(* Properties *)

HasFrame(call, fn) == \E k \in 1..Len(call.stack) : call.stack[k].fn = fn

\* a refreshData run has started and not finished
RefreshInFlight == \E i \in 1..Len(pending) : HasFrame(pending[i], "refreshData")

Settled == lastOp.name \in {"rpcResolve", "rpcReject"}

\* the step just taken settled the call of the initial load
InitialLoadSettled == Settled /\ HasFrame(lastOp.arg, "onWillStart")

ExportBase == "/attendance_dashboard/export_monthly_excel?"

\* C1: after the controller is torn down the 60-second timer runs no
\* refreshData, so it issues no get_all_dashboard_data call.
C1_NoTimerRefreshAfterTeardown ==
    phase = "destroyed" => lastOp.name # "timerTick"

\* C2: the initial load ends with loading = false whether its call resolves
\* or rejects, no rejection escapes to the caller, and loading, once false,
\* is never true again.
C2_InitialLoadClearsLoading ==
    /\ [](InitialLoadSettled => ~state.loading /\ phase \in {"ready", "destroyed"})
    /\ [](~uncaught)
    /\ [][~state.loading => ~state.loading']_vars

C2_Witness == InitialLoadSettled /\ lastOp.name = "rpcReject" /\ ~state.loading

\* C3: whenever a reload started by the timer or by a filter operation is
\* in flight, refreshing is true.
C3_RefreshingWhileReloadInFlight == RefreshInFlight => state.refreshing

\* C4: refreshing is true only while a refreshData run is in progress,
\* loading and refreshing are never both true, and the timer starts no
\* reload before the initial load has completed.
C4_RefreshingOnlyDuringRefresh ==
    /\ state.refreshing => RefreshInFlight
    /\ ~(state.loading /\ state.refreshing)
    /\ refreshInterval => ~state.loading
    /\ lastOp.name = "timerTick" => ~state.loading

C4_Witness == lastOp.name = "timerTick" /\ state.refreshing /\ RefreshInFlight

\* C5: a step that handles the failure of a remote call is caught and
\* changes no field of the state but the loading and refreshing flags.
C5_FailureKeepsData ==
    [][lastOp'.name = "rpcReject" =>
          /\ [state' EXCEPT !.loading = state.loading,
                            !.refreshing = state.refreshing] = state
          /\ ~uncaught']_vars

C5_Witness ==
    /\ lastOp.name = "rpcReject"
    /\ lastOp.arg.method = "get_monthly_work_summary"
    /\ state.monthlySummary # Literal("monthly_summary")
    /\ state.todayStats # Literal("today_stats")

\* the id each raw value of the department and job selectors stands for
ExpectedFilter(value) ==
    CASE value = <<>> -> Null
      [] value = <<"0">> -> Num(0)
      [] value = <<"3">> -> Num(3)
      [] value = <<"5">> -> Num(5)

\* the one full-dashboard call made with the filters now stored
FullReloadIssued ==
    issued = <<[method |-> "get_all_dashboard_data",
                args |-> IF variant = "A"
                         THEN <<state.selectedDepartment, state.selectedJob>>
                         ELSE <<state.selectedDepartment>>]>>

\* C6: a filter operation stores the new filter value (null for the empty
\* selection, the parsed id otherwise, null everywhere for clearFilters)
\* and issues, in the same step, exactly one get_all_dashboard_data call
\* with the filter values just stored.
C6_FilterStoresThenReloads ==
    /\ lastOp.name = "onDepartmentChange" =>
          state.selectedDepartment = ExpectedFilter(lastOp.arg) /\ FullReloadIssued
    /\ lastOp.name = "onJobChange" =>
          state.selectedJob = ExpectedFilter(lastOp.arg) /\ FullReloadIssued
    /\ lastOp.name = "clearFilters" =>
          /\ state.selectedDepartment = Null
          /\ variant = "A" => state.selectedJob = Null
          /\ FullReloadIssued

C6_Witness ==
    /\ lastOp.name = "onDepartmentChange"
    /\ lastOp.arg = <<"3">>
    /\ state.selectedDepartment = Num(3)
    /\ Len(pending) = 2

\* C7: setActiveTab('monthly') issues exactly one get_monthly_work_summary
\* call with the filters selected at that moment, setActiveTab('employees')
\* (variant A) exactly one get_employee_list call with the current employee
\* filter, department and job, and setActiveTab('overview') no call.
C7_TabSwitchLoads ==
    lastOp.name = "setActiveTab" =>
        /\ lastOp.arg = "monthly" =>
              issued = <<[method |-> "get_monthly_work_summary",
                          args |-> IF variant = "A"
                                   THEN <<state.selectedDepartment, state.selectedJob,
                                          state.selectedMonth, state.selectedYear>>
                                   ELSE <<state.selectedDepartment,
                                          state.selectedMonth, state.selectedYear>>]>>
        /\ lastOp.arg = "employees" =>
              /\ variant = "A"
              /\ issued = <<[method |-> "get_employee_list",
                             args |-> <<state.employeeFilter,
                                        state.selectedDepartment,
                                        state.selectedJob>>]>>
        /\ lastOp.arg = "overview" => issued = <<>>

\* the monthly tab is entered with a department selected that the data of
\* the last full load was not fetched for
C7_Witness ==
    /\ lastOp.name = "setActiveTab"
    /\ lastOp.arg = "monthly"
    /\ state.selectedDepartment = Num(3)
    /\ state.todayStats.of.method = "get_all_dashboard_data"
    /\ state.todayStats.of.args[1] = Null

\* C8: setActiveTab sets activeTab and leaves selectedDepartment,
\* selectedJob, employeeFilter, selectedMonth and selectedYear as they were;
\* in variant B the only other field it writes is showLeaveList, which is
\* false afterwards.
C8_TabSwitchKeepsFilters ==
    [][lastOp'.name = "setActiveTab" =>
          /\ state'.activeTab = lastOp'.arg
          /\ state'.selectedDepartment = state.selectedDepartment
          /\ state'.selectedMonth = state.selectedMonth
          /\ state'.selectedYear = state.selectedYear
          /\ variant = "A" => /\ state'.selectedJob = state.selectedJob
                              /\ state'.employeeFilter = state.employeeFilter
          /\ variant = "B" => /\ ~state'.showLeaveList
                              /\ state' = [state EXCEPT !.activeTab = lastOp'.arg,
                                                        !.showLeaveList = FALSE]]_vars

C8_Witness ==
    /\ lastOp.name = "setActiveTab"
    /\ lastOp.arg = "monthly"
    /\ state.activeTab = "monthly"
    /\ state.selectedDepartment = Num(3)

\* C9: onMonthChange and onYearChange each issue exactly one
\* get_monthly_work_summary call and onEmployeeFilterChange exactly one
\* get_employee_list call; none issues a get_all_dashboard_data call,
\* changes the refreshing flag or touches the periodic timer.
C9_TargetedReloads ==
    [][/\ lastOp'.name \in {"onMonthChange", "onYearChange"} =>
             /\ Len(issued') = 1
             /\ issued'[1].method = "get_monthly_work_summary"
       /\ lastOp'.name = "onEmployeeFilterChange" =>
             /\ Len(issued') = 1
             /\ issued'[1].method = "get_employee_list"
       /\ lastOp'.name \in {"onMonthChange", "onYearChange", "onEmployeeFilterChange"} =>
             /\ state'.refreshing = state.refreshing
             /\ refreshInterval' = refreshInterval
             /\ now' = now]_vars

\* a month change while a timer refresh is in flight
C9_Witness ==
    /\ lastOp.name = "onMonthChange"
    /\ state.refreshing
    /\ RefreshInFlight
    /\ state.selectedMonth = Num(12)

\* the filters are those setup() left: the user has selected none
NoFilterSelected ==
    /\ state.selectedDepartment = Null
    /\ variant = "A" => state.selectedJob = Null
    /\ state.selectedMonth = Num(CurrentMonth)
    /\ state.selectedYear = Num(CurrentYear)

Department3Year2024 ==
    /\ state.selectedDepartment = Num(3)
    /\ variant = "A" => state.selectedJob = Null
    /\ state.selectedYear = Num(2024)

\* C10 as stated: with no filter selected exportToExcel opens the export
\* URL with an empty query string; with department 3 and year 2024 selected
\* the query string is exactly department_id=3 and year=2024.
C10_ExportQueryAsStated ==
    lastOp.name = "exportToExcel" =>
        /\ NoFilterSelected => opened = <<ExportBase>>
        /\ Department3Year2024 =>
              opened = <<ExportBase \o "department_id=3&year=2024">>

\* C10 amended: with no filter selected the query string is exactly
\* month=<current month>&year=<current year>; with department 3 and year
\* 2024 selected, no job and a month m of 1..12, it is exactly
\* department_id=3&month=m&year=2024.
C10_ExportQueryWithMonth ==
    lastOp.name = "exportToExcel" =>
        /\ NoFilterSelected =>
              opened = <<ExportBase \o "month=" \o ToString(CurrentMonth)
                            \o "&year=" \o ToString(CurrentYear)>>
        /\ \A m \in 1..12 :
              Department3Year2024 /\ state.selectedMonth = Num(m) =>
                  opened = <<ExportBase \o "department_id=3&month=" \o ToString(m)
                                \o "&year=2024">>

C10_Witness ==
    /\ lastOp.name = "exportToExcel"
    /\ Department3Year2024
    /\ opened = <<ExportBase \o "department_id=3&month=11&year=2024">>

\* C11: selectedMonth is a month of 1..12 in every state: onMonthChange
\* stores no value outside 1..12, whatever raw value its event carries.
C11_SelectedMonthInRange ==
    \E m \in 1..12 : state.selectedMonth = Num(m)

\* the budget of the model allows one more handler that issues a call
MayIssue == Len(pending) < MaxPending /\ events > 0

\* the operations that issue one remote call whenever they run
IssuingOperations ==
    {"timerTick", "onDepartmentChange", "onJobChange", "clearFilters",
     "onEmployeeFilterChange", "onMonthChange", "onYearChange"}

\* C12: a failed fetch disables nothing: always, after a rejection the
\* controller is still ready or mounted (or was destroyed), the timer tick
\* and every user operation are enabled; a timer tick issues its
\* full-dashboard call and every other operation that loads data its one
\* call; and a later successful response is stored.
C12_FailureDisablesNothing ==
    [](/\ lastOp.name = "rpcReject" =>
            /\ ~uncaught
            /\ phase \in {"ready", "mounted", "destroyed"}
            /\ phase = "ready" => ENABLED onMounted
            /\ phase = "mounted" /\ MayIssue =>
                  /\ ENABLED timerTick
                  /\ ENABLED onDepartmentChange
                  /\ ENABLED clearFilters
                  /\ ENABLED setActiveTab
                  /\ ENABLED onMonthChange
                  /\ ENABLED onYearChange
                  /\ ENABLED exportToExcel
                  /\ variant = "A" =>
                        ENABLED onJobChange /\ ENABLED onEmployeeFilterChange
       /\ lastOp.name = "timerTick" => FullReloadIssued
       /\ lastOp.name \in IssuingOperations => Len(issued) = 1
       /\ lastOp.name = "setActiveTab" /\ lastOp.arg # "overview" => Len(issued) = 1
       /\ lastOp.name = "rpcResolve" /\ lastOp.arg.method = "get_all_dashboard_data" =>
             /\ state.todayStats
                   = Field(Response(lastOp.arg.method, lastOp.arg.args), "today_stats")
             /\ ~state.loading)

\* the initial load has failed (the data is still what setup() left) and
\* the timer tick that follows issues its call all the same
C12_Witness ==
    /\ lastOp.name = "timerTick"
    /\ state.todayStats = Literal("today_stats")
    /\ ~state.loading
    /\ FullReloadIssued

\* the response lastOp.arg answers
Answered == Response(lastOp.arg.method, lastOp.arg.args)

\* C14: reloads are not coordinated: no step cancels or drops a call in
\* flight, a response settles exactly the call it answers, and a resolved
\* full-dashboard response overwrites the shared fields whenever it
\* arrives, so the fields hold the data of the response that arrived last.
C14_LastResponseWins ==
    /\ [][lastOp'.name \notin {"rpcResolve", "rpcReject"} =>
              /\ Len(pending') >= Len(pending)
              /\ SubSeq(pending', 1, Len(pending)) = pending]_vars
    /\ [][lastOp'.name \in {"rpcResolve", "rpcReject"} =>
              \E i \in 1..Len(pending) :
                  /\ lastOp'.arg = pending[i]
                  /\ SubSeq(pending', 1, Len(pending) - 1) = Remove(pending, i)]_vars
    /\ [][lastOp'.name = "rpcResolve"
              /\ lastOp'.arg.method = "get_all_dashboard_data" =>
              /\ state'.todayStats
                    = Field(Response(lastOp'.arg.method, lastOp'.arg.args),
                            "today_stats")
              /\ state'.departments
                    = Field(Response(lastOp'.arg.method, lastOp'.arg.args),
                            "departments")]_vars

\* two refreshes overlapped and the one issued first, before department 3
\* was selected, was answered last: its data is what the state holds
C14_Witness ==
    /\ pending = <<>>
    /\ lastOp.name = "rpcResolve"
    /\ HasFrame(lastOp.arg, "refreshData")
    /\ lastOp.arg.method = "get_all_dashboard_data"
    /\ lastOp.arg.args[1] = Null
    /\ state.selectedDepartment = Num(3)
    /\ state.todayStats = Field(Answered, "today_stats")
    /\ state.refreshing = FALSE

\* `name=value` for a field that is not null
expectedParam(name, value) ==
    IF value # Null THEN <<name \o "=" \o ToString(value.v)>> ELSE <<>>

\* C17: the URL exportToExcel opens has department_id, job_id, month and
\* year, in this order, each exactly when its field is not null (an id of 0
\* included) and with the field's value.
C17_ExportParamsWhenNonNull ==
    lastOp.name = "exportToExcel" =>
        opened = <<ExportBase \o join(
            expectedParam("department_id", state.selectedDepartment)
                \o (IF variant = "A" THEN expectedParam("job_id", state.selectedJob)
                    ELSE <<>>)
                \o expectedParam("month", state.selectedMonth)
                \o expectedParam("year", state.selectedYear), "&")>>

\* the monthly summary shown was fetched by get_monthly_work_summary for
\* the selected month and year, or is the one of the full load (or of
\* setup) while the current month and year are selected
SummaryForSelection ==
    IF "field" \in DOMAIN state.monthlySummary
    THEN /\ state.selectedMonth = Num(CurrentMonth)
         /\ state.selectedYear = Num(CurrentYear)
    ELSE /\ state.monthlySummary.method = "get_monthly_work_summary"
         /\ state.monthlySummary.args[3] = state.selectedMonth
         /\ state.monthlySummary.args[4] = state.selectedYear

\* C18 (variant A): a full-dashboard reload does not change the month the
\* monthly view shows: when a refresh has been answered, no request is in
\* flight and a month of the selector is selected, monthlySummary is the
\* summary of the selected month and year.
C18_RefreshKeepsMonthlyView ==
    /\ variant = "A"
    /\ pending = <<>>
    /\ lastOp.name = "rpcResolve"
    /\ HasFrame(lastOp.arg, "refreshData")
    /\ \E m \in getMonthOptions : state.selectedMonth = Num(m)
    => SummaryForSelection

FilterHandlers == {"onDepartmentChange", "onJobChange", "clearFilters"}

\* C19 (variant A): on the employees tab the employee list follows the
\* department and job filters: when the refresh of a filter operation has
\* been answered and no request is in flight, the employeeList that was
\* loaded is the response of get_employee_list for the selected employee
\* filter, department and job.
C19_EmployeeListFollowsFilters ==
    /\ variant = "A"
    /\ state.activeTab = "employees"
    /\ pending = <<>>
    /\ lastOp.name = "rpcResolve"
    /\ \E h \in FilterHandlers : HasFrame(lastOp.arg, h)
    /\ "method" \in DOMAIN state.employeeList
    => state.employeeList
          = Response("get_employee_list",
                     <<state.employeeFilter, state.selectedDepartment,
                       state.selectedJob>>)

\* C20: lastUpdate changes only in a step in which a full-dashboard load
\* succeeds.
C20_LastUpdateOnlyOnFullLoad ==
    [][state'.lastUpdate # state.lastUpdate =>
          /\ lastOp'.name = "rpcResolve"
          /\ lastOp'.arg.method = "get_all_dashboard_data"]_vars

\* a full-dashboard load fails one timer period after the last successful
\* one and lastUpdate still shows the earlier time
C20_Witness ==
    /\ lastOp.name = "rpcReject"
    /\ lastOp.arg.method = "get_all_dashboard_data"
    /\ now = 1
    /\ state.lastUpdate = toLocaleTimeString(0)
    /\ state.todayStats # Literal("today_stats")

\* C13: getInitials answers "?" for the empty name, the two uppercased
\* first letters of the first two parts for a name that splits on single
\* spaces into two parts or more, and the uppercased first two characters
\* for any other name; leading, trailing and consecutive spaces included.
C13_InitialsAsSpecified ==
    initials # NotCalled =>
        LET parts == split(fullName, " ")
        IN IF fullName = <<>> THEN initials = ReturnedString(<<"?">>)
           ELSE IF Len(parts) >= 2 THEN
               /\ initials.t = "returned"
               /\ Len(initials.value) = 2
               /\ parts[1] # <<>> /\ parts[2] # <<>> =>
                     initials.value = <<toUpperCaseChar(parts[1][1]),
                                        toUpperCaseChar(parts[2][1])>>
           ELSE /\ initials.t = "returned"
                /\ initials.value
                      = toUpperCase(SubSeq(fullName, 1,
                                           IF Len(fullName) < 2 THEN Len(fullName)
                                           ELSE 2))

\* the call a refreshData run awaits after its full load (variant B)
RefreshAwaitsMonthly(call) ==
    \E k \in 1..Len(call.stack) :
        call.stack[k] = Frame("refreshData", "loadMonthlySummary")

\* the step just taken ended the full load of a refreshData run
RefreshLoadSettled ==
    /\ Settled
    /\ lastOp.arg.method = "get_all_dashboard_data"
    /\ HasFrame(lastOp.arg, "refreshData")

\* C15: in variant B a refresh issues a get_monthly_work_summary call
\* exactly when activeTab is 'monthly' as its full load ends, after that
\* load, and refreshing is true until the monthly call has completed; in
\* variant A a refresh never issues that call.
C15_RefreshReloadsMonthly ==
    /\ variant = "B" /\ RefreshLoadSettled =>
          IF state.activeTab = "monthly"
          THEN issued = <<[method |-> "get_monthly_work_summary",
                           args |-> <<state.selectedDepartment,
                                      state.selectedMonth, state.selectedYear>>]>>
          ELSE issued = <<>>
    /\ variant = "B" =>
          \A i \in 1..Len(pending) :
              RefreshAwaitsMonthly(pending[i]) => state.refreshing
    /\ variant = "A" /\ RefreshLoadSettled => issued = <<>>

\* C16: when every remote call is eventually answered, the initial load,
\* once started, ends with loading = false, and refreshing, whenever true,
\* becomes false again: it is false infinitely often.
C16_FlagsEventuallyCleared ==
    /\ (phase = "willStart") ~> ~state.loading
    /\ state.refreshing ~> ~state.refreshing
    /\ []<>(~state.refreshing)

\* the last of two overlapping refreshes has been rejected and the flag is
\* down
C16_Witness ==
    /\ lastOp.name = "rpcReject"
    /\ HasFrame(lastOp.arg, "refreshData")
    /\ pending = <<>>
    /\ events = 0
    /\ now = 2
    /\ ~state.refreshing

====
